---- MODULE Spec2Model ----
(***************************************************************************)
(* Model of Multisphere._calc_field (scattering/theory/multisphere.py).    *)
(*                                                                         *)
(* One calculation is a sequential pipeline of five stages (VALIDATE,      *)
(* TRANSFORM, SOLVE, TRUNCATE_VALIDATE, RECONSTRUCT).  The two compiled    *)
(* kernels, scsmfo_min.amncalc and mieangfuncs.tmatrix_fields, are         *)
(* external: a call is logged with the arguments the Python code builds    *)
(* and its return value is drawn from a bounded set of responses.          *)
(*                                                                         *)
(* Numbers: lengths, radii and the wavevector are integers; the quotients  *)
(* numpy forms (the centroid, n / index) are exact rationals num/den with  *)
(* den > 0, so the comparisons against 1e3 and 1e4 are exact.  Floating    *)
(* point rounding is not modelled.  A kernel output value is a record      *)
(* [kind, v] with kind "fin", "nan" or "inf".                              *)
(***************************************************************************)
EXTENDS Integers, Sequences, FiniteSets, TLC

VARIABLES
    theory,      \* the Multisphere instance (self): niter, eps, meth, qeps1, qeps2
    scatterer,   \* per calculation: the scatterer argument
    target,      \* per calculation: the target argument (optics, sample points)
    pc,          \* per calculation: the stage to run next, or "DONE"
    outcome,     \* per calculation: the exception raised or the value returned
    centers,     \* per calculation: local 'centers' (line 134), <<>> before
    m,           \* per calculation: local 'm' (line 136), <<>> before
    solverLog,   \* per calculation: arguments of each scsmfo_min.amncalc call
    sol,         \* per calculation: <<what amncalc returned>>, <<>> before
    amn,         \* per calculation: local 'amn' (line 174), <<>> before
    reconLog,    \* per calculation: arguments of each tmatrix_fields call
    fields,      \* per calculation: local 'fields' (line 179), <<>> before
    trace        \* per calculation: the stages that have run, in order

vars == <<theory, scatterer, target, pc, outcome, centers, m, solverLog, sol,
          amn, reconLog, fields, trace>>

(***************************************************************************)
(* Bounds of the model.                                                    *)
(***************************************************************************)
MaxSpheres == 3     \* clusters of 1..MaxSpheres spheres
MaxOrder == 2       \* the solver's maximum supported order (sizes amn0)
NumPoints == 2      \* sample points of the target
NumAmnComponents == 2   \* length of amn0's last axis

(***************************************************************************)
(* Program constants.                                                      *)
(***************************************************************************)
RadiusLimit == 1000         \* 1e3, line 128
SeparationLimit == 10000    \* 1e4, line 138

RadiusMsg == "radius too large, field calculation would take forever"
SeparationMsg == "Particle separation too large, calculation would take forever"

(***************************************************************************)
(* Exact rational arithmetic for numpy's float expressions.                *)
(***************************************************************************)
Rat(n, d) == [num |-> n, den |-> d]
RatScale(q, k) == Rat(q.num * k, q.den)
IntMinusRat(c, q) == Rat(c * q.den - q.num, q.den)
RatGT(q, t) == q.num > t * q.den

RECURSIVE SumSeq(_)
SumSeq(s) == IF s = <<>> THEN 0 ELSE Head(s) + SumSeq(Tail(s))

Min(a, b) == IF a < b THEN a ELSE b

Axes == 1..3


(***************************************************************************)
(* The scatterer and the attributes _calc_field reads from it.             *)
(***************************************************************************)
NumSpheres(sc) == Len(sc.scatterers)
ScattererCenters(sc) == [i \in 1..NumSpheres(sc) |-> sc.scatterers[i].center]
ScattererR(sc) == [i \in 1..NumSpheres(sc) |-> sc.scatterers[i].r]
ScattererN(sc) == [i \in 1..NumSpheres(sc) |-> sc.scatterers[i].n]
Column(cs, a) == [i \in 1..Len(cs) |-> cs[i][a]]

\* numpy: centers.mean(0), the centroid, one exact quotient per axis
Mean0(cs) == [a \in Axes |-> Rat(SumSeq(Column(cs, a)), Len(cs))]

\* numpy: z.mean()
ZMean(sc) == Rat(SumSeq(Column(ScattererCenters(sc), 3)), NumSpheres(sc))

\* line 122: isinstance(scatterer, SphereCluster)
\* faulty variant: the type check left out
IsSphereClusterAlways(sc) == TRUE
IsSphereCluster(sc) == sc.kind = "SphereCluster"

\* line 128: s.r * target.optics.wavevec > 1e3
\* faulty variant: the limit ten times too lax
RadiusTooLargeTenfold(s, wavevec) == s.r * wavevec > 10 * RadiusLimit
RadiusTooLarge(s, wavevec) == s.r * wavevec > RadiusLimit

\* lines 127-130: the loop raises at the first sphere for which the test holds
OffendingSpheres(sc, wavevec) ==
    {i \in 1..NumSpheres(sc) : RadiusTooLarge(sc.scatterers[i], wavevec)}
FirstOffending(sc, wavevec) ==
    CHOOSE i \in OffendingSpheres(sc, wavevec) :
        \A j \in OffendingSpheres(sc, wavevec) : i <= j

\* line 134: (scatterer.centers - scatterer.centers.mean(0)) * wavevec
CentroidCoords(sc, wavevec) ==
    LET cs == ScattererCenters(sc)
        mean == Mean0(cs)
    IN  [i \in 1..Len(cs) |->
            [a \in Axes |-> RatScale(IntMinusRat(cs[i][a], mean[a]), wavevec)]]

\* line 136: scatterer.n / target.optics.index (complex over real)
RelativeIndex(sc, index) ==
    [i \in 1..NumSpheres(sc) |->
        [real |-> Rat(ScattererN(sc)[i].re, index),
         imag |-> Rat(ScattererN(sc)[i].im, index)]]

\* line 138: (centers > 1e4).any()
SeparationTooLarge(cs) ==
    \E i \in 1..Len(cs) : \E a \in Axes : RatGT(cs[i][a], SeparationLimit)

\* lines 143-162: the positional arguments of scsmfo_min.amncalc
\* faulty variant: z handed over unflipped
SolverArgsNoFlip(cs, mm, sc, tg, th) ==
    << 1,
       Column(cs, 1),
       Column(cs, 2),
       Column(cs, 3),
       [i \in 1..Len(mm) |-> mm[i].real],
       [i \in 1..Len(mm) |-> mm[i].imag],
       [i \in 1..NumSpheres(sc) |-> ScattererR(sc)[i] * tg.optics.wavevec],
       th.niter, th.eps, th.qeps1, th.qeps2, th.meth,
       <<0, 0>> >>
SolverArgs(cs, mm, sc, tg, th) ==
    << 1,
       Column(cs, 1),
       Column(cs, 2),
       [i \in 1..Len(cs) |-> RatScale(cs[i][3], -1)],
       [i \in 1..Len(mm) |-> mm[i].real],
       [i \in 1..Len(mm) |-> mm[i].imag],
       [i \in 1..NumSpheres(sc) |-> ScattererR(sc)[i] * tg.optics.wavevec],
       th.niter, th.eps, th.qeps1, th.qeps2, th.meth,
       <<0, 0>> >>

\* line 166: 'not converged' (f2py hands the F77 LOGICAL over as an int)
\* faulty variant: the flag ignored
NotConvergedNever(converged) == FALSE
NotConverged(converged) == converged = 0

\* line 173: limit = lmax**2 + 2*lmax
\* faulty variant: the range of the next order
LimitNextOrder(lmax) == (lmax + 1) * (lmax + 1) + 2 * (lmax + 1)
Limit(lmax) == lmax * lmax + 2 * lmax

\* line 174: amn0[:, 0:limit, :] (a numpy slice stops at the end of the axis)
Truncate(amn0, limit) ==
    [s \in 1..Len(amn0) |-> SubSeq(amn0[s], 1, Min(limit, Len(amn0[s])))]

\* numpy: np.isnan of one value
\* faulty variant: no value recognised as NaN
IsNaNNever(x) == FALSE
IsNaN(x) == x.kind = "nan"

\* line 176: np.isnan(amn).any()
AnyNaN(a) ==
    \E s \in 1..Len(a) : \E j \in 1..Len(a[s]) : \E k \in 1..Len(a[s][j]) :
        IsNaN(a[s][j][k])

\* line 184: np.isnan(fields[0][0])
FieldIsNaN(f) == IsNaN(f[1][1])

\* lines 179-181: the arguments of mieangfuncs.tmatrix_fields
ReconArgs(sc, tg, a, lmax) ==
    [origin |-> Mean0(ScattererCenters(sc)),
     positions |-> tg.positions,
     amn |-> a,
     lmax |-> lmax,
     flag |-> 0,
     polarization |-> tg.optics.polarization]

\* lines 187-190: np.vstack(fields).T mapped onto the target, times the phase
\* exp(-1j*pi*2*z.mean()/med_wavelen), kept as its two operands
Result(f, sc, tg) ==
    [values |-> [p \in 1..Len(f[1]) |-> [k \in 1..Len(f) |-> f[k][p]]],
     phase |-> [zmean |-> ZMean(sc), med_wavelen |-> tg.optics.med_wavelen]]

(***************************************************************************)
(* Outcomes: the exceptions with their constructor arguments, or a value.  *)
(***************************************************************************)
NoResult == <<>>    \* result is <<>> or <<value>>
Nobody == [what |-> "none", idx |-> 0]
WholeScatterer == [what |-> "scatterer", idx |-> 0]
OneSphere(i) == [what |-> "sphere", idx |-> i]

NoOutcome ==
    [kind |-> "none", theory |-> <<>>, subject |-> Nobody, msg |-> "",
     result |-> NoResult]
\* line 123
TheoryNotCompatibleError(th) ==
    [kind |-> "TheoryNotCompatibleError", theory |-> <<th>>,
     subject |-> WholeScatterer, msg |-> "", result |-> NoResult]
\* lines 129-130, 139-140
UnrealizableScatterer(th, who, msg) ==
    [kind |-> "UnrealizableScatterer", theory |-> <<th>>, subject |-> who,
     msg |-> msg, result |-> NoResult]
\* line 167
ConvergenceFailureMultisphere ==
    [kind |-> "ConvergenceFailureMultisphere", theory |-> <<>>,
     subject |-> Nobody, msg |-> "", result |-> NoResult]
\* line 177
MultisphereExpansionNaN ==
    [kind |-> "MultisphereExpansionNaN", theory |-> <<>>, subject |-> Nobody,
     msg |-> "", result |-> NoResult]
\* line 185
MultisphereFieldNaN(th) ==
    [kind |-> "MultisphereFieldNaN", theory |-> <<th>>,
     subject |-> WholeScatterer, msg |-> "", result |-> NoResult]
\* line 190
Returned(res) ==
    [kind |-> "returned", theory |-> <<>>, subject |-> Nobody, msg |-> "",
     result |-> <<res>>]


(***************************************************************************)
(* Inputs.  Lengths are in units in which the sample values are integers.  *)
(***************************************************************************)
Sphere(center, r, re, im) == [center |-> center, r |-> r, n |-> [re |-> re, im |-> im]]

SphereChoices ==
    { Sphere(<<-10000, 0, 5000>>, 1, 3, 0),
      Sphere(<<5000, 2500, 0>>, 500, 4, 1),
      Sphere(<<5000, 2500, 0>>, 600, 3, 0) }

RECURSIVE SeqsOfLen(_, _)
SeqsOfLen(S, n) ==
    IF n = 0 THEN {<<>>}
    ELSE {Append(q, x) : q \in SeqsOfLen(S, n - 1), x \in S}

Clusters ==
    {[kind |-> "SphereCluster", scatterers |-> q] :
        q \in UNION {SeqsOfLen(SphereChoices, n) : n \in 1..MaxSpheres}}
\* a scatterer that is no SphereCluster (a lone Sphere)
NonClusters == {[kind |-> "Sphere", scatterers |-> <<x>>] : x \in SphereChoices}
Scatterers == Clusters \cup NonClusters

Optics ==
    {[wavevec |-> k, index |-> k + 1, polarization |-> <<1, 0>>, med_wavelen |-> 12 \div k] :
        k \in {1, 2}}
Targets == {[optics |-> o, positions |-> [p \in 1..NumPoints |-> p]] : o \in Optics}

\* Multisphere.__init__, lines 93-98: the defaults, and one other configuration
DefaultTheory == [niter |-> 200, eps |-> "1e-6", meth |-> 1, qeps1 |-> "1e-5", qeps2 |-> "1e-8"]
Theories == {DefaultTheory,
             [niter |-> 50, eps |-> "1e-4", meth |-> 0, qeps1 |-> "1e-3", qeps2 |-> "1e-5"]}

(***************************************************************************)
(* Kernel responses.  amncalc returns (_, lmax, amn0, converged) with amn0 *)
(* sized for MaxOrder; tmatrix_fields returns three arrays, one value per  *)
(* sample point.  A response holds finite values, told apart by their      *)
(* position, with at most one entry replaced by NaN or infinity.           *)
(***************************************************************************)
RawLen == MaxOrder * MaxOrder + 2 * MaxOrder
Kinds == {"nan", "inf"}
Fin(v) == [kind |-> "fin", v |-> v]
Bad(kind) == [kind |-> kind, v |-> 0]
NoPoison == [s |-> 0, j |-> 0, k |-> 0, kind |-> "fin"]

\* the multipole indices at the two edges of each order's range
EdgeIdx == {j \in 1..RawLen : \E l \in 0..MaxOrder : j \in {l * l + 2 * l, l * l + 2 * l + 1}}

AmnPoisons(n, idx) ==
    {NoPoison} \cup
    {[s |-> sk[1], j |-> j, k |-> sk[2], kind |-> kind] :
        sk \in {<<1, 1>>, <<n, NumAmnComponents>>}, j \in idx, kind \in Kinds}

RawCoefficients(n, p) ==
    [s \in 1..n |-> [j \in 1..RawLen |-> [k \in 1..NumAmnComponents |->
        IF s = p.s /\ j = p.j /\ k = p.k THEN Bad(p.kind)
        ELSE Fin(100 * s + 10 * j + k)]]]

SolverResponses(n, orders, idx) ==
    {[lmax |-> l, amn0 |-> RawCoefficients(n, p), converged |-> cv] :
        l \in orders, p \in AmnPoisons(n, idx), cv \in {0, 1}}

FieldPoisons(comps, points) ==
    {NoPoison} \cup
    {[s |-> 0, j |-> pt, k |-> k, kind |-> kind] :
        k \in comps, pt \in points, kind \in Kinds}

FieldResponses(comps, points) ==
    {[k \in 1..3 |-> [pt \in 1..NumPoints |->
        IF k = p.k /\ pt = p.j THEN Bad(p.kind) ELSE Fin(10 * k + pt)]] :
        p \in FieldPoisons(comps, points)}

(***************************************************************************)
(* Initial states: calculations about to start, on one theory instance.    *)
(***************************************************************************)
InitWith(calcs, scs, tgs) ==
    /\ theory \in Theories
    /\ scatterer \in [calcs -> scs]
    /\ target \in [calcs -> tgs]
    /\ pc = [c \in calcs |-> "VALIDATE"]
    /\ outcome = [c \in calcs |-> NoOutcome]
    /\ centers = [c \in calcs |-> <<>>]
    /\ m = [c \in calcs |-> <<>>]
    /\ solverLog = [c \in calcs |-> <<>>]
    /\ sol = [c \in calcs |-> <<>>]
    /\ amn = [c \in calcs |-> <<>>]
    /\ reconLog = [c \in calcs |-> <<>>]
    /\ fields = [c \in calcs |-> <<>>]
    /\ trace = [c \in calcs |-> <<>>]

Init == InitWith({1}, Scatterers, Targets)

Calcs == DOMAIN pc

(***************************************************************************)
(* raise / fall through to the next stage                                  *)
(***************************************************************************)
\* faulty variant: the exception recorded but the stage not left
RaiseAndGoOn(c, exc) ==
    /\ outcome' = [outcome EXCEPT ![c] = exc]
    /\ UNCHANGED pc
Raise(c, exc) ==
    /\ outcome' = [outcome EXCEPT ![c] = exc]
    /\ pc' = [pc EXCEPT ![c] = "DONE"]

GoOn(c, stage) ==
    /\ pc' = [pc EXCEPT ![c] = stage]
    /\ UNCHANGED outcome

Ran(c, stage) == trace' = [trace EXCEPT ![c] = Append(@, stage)]

(***************************************************************************)
(* lines 122-130: the type check, then the radius guard                    *)
(***************************************************************************)
Validate(c) ==
    /\ pc[c] = "VALIDATE"
    /\ Ran(c, "VALIDATE")
    /\ IF ~IsSphereCluster(scatterer[c])
       THEN Raise(c, TheoryNotCompatibleError(theory))
       ELSE IF OffendingSpheres(scatterer[c], target[c].optics.wavevec) # {}
            THEN Raise(c, UnrealizableScatterer(theory,
                        OneSphere(FirstOffending(scatterer[c], target[c].optics.wavevec)),
                        RadiusMsg))
            ELSE GoOn(c, "TRANSFORM")
    /\ UNCHANGED <<theory, scatterer, target, centers, m, solverLog, sol, amn,
                   reconLog, fields>>

(***************************************************************************)
(* lines 132-140: centroid coordinates, relative index, separation guard   *)
(***************************************************************************)
Transform(c) ==
    /\ pc[c] = "TRANSFORM"
    /\ Ran(c, "TRANSFORM")
    /\ centers' = [centers EXCEPT ![c] =
                     CentroidCoords(scatterer[c], target[c].optics.wavevec)]
    /\ m' = [m EXCEPT ![c] = RelativeIndex(scatterer[c], target[c].optics.index)]
    /\ IF SeparationTooLarge(centers'[c])
       THEN Raise(c, UnrealizableScatterer(theory, WholeScatterer, SeparationMsg))
       ELSE GoOn(c, "SOLVE")
    /\ UNCHANGED <<theory, scatterer, target, solverLog, sol, amn, reconLog, fields>>

(***************************************************************************)
(* lines 143-167: the solver call and the convergence check                *)
(***************************************************************************)
Solve(c, resp) ==
    /\ pc[c] = "SOLVE"
    /\ Ran(c, "SOLVE")
    /\ solverLog' = [solverLog EXCEPT ![c] =
                       Append(@, SolverArgs(centers[c], m[c], scatterer[c],
                                            target[c], theory))]
    /\ sol' = [sol EXCEPT ![c] = <<resp>>]
    /\ IF NotConverged(resp.converged)
       THEN Raise(c, ConvergenceFailureMultisphere)
       ELSE GoOn(c, "TRUNCATE_VALIDATE")
    /\ UNCHANGED <<theory, scatterer, target, centers, m, amn, reconLog, fields>>

(***************************************************************************)
(* lines 169-177: truncation to the converged order and the NaN check      *)
(***************************************************************************)
\* faulty variant: lmax kept in one place shared by all calculations
SolvedLmaxShared(c) ==
    LET solved == {d \in Calcs : sol[d] # <<>>}
    IN  sol[CHOOSE d \in solved : \A e \in solved : sol[d][1].lmax >= sol[e][1].lmax][1].lmax
SolvedLmax(c) == sol[c][1].lmax

TruncateValidate(c) ==
    /\ pc[c] = "TRUNCATE_VALIDATE"
    /\ Ran(c, "TRUNCATE_VALIDATE")
    /\ amn' = [amn EXCEPT ![c] = Truncate(sol[c][1].amn0, Limit(SolvedLmax(c)))]
    /\ IF AnyNaN(amn'[c])
       THEN Raise(c, MultisphereExpansionNaN)
       ELSE GoOn(c, "RECONSTRUCT")
    /\ UNCHANGED <<theory, scatterer, target, centers, m, solverLog, sol,
                   reconLog, fields>>

(***************************************************************************)
(* lines 179-190: field reconstruction, its NaN check, and the result      *)
(***************************************************************************)
Reconstruct(c, resp) ==
    /\ pc[c] = "RECONSTRUCT"
    /\ Ran(c, "RECONSTRUCT")
    /\ reconLog' = [reconLog EXCEPT ![c] =
                      Append(@, ReconArgs(scatterer[c], target[c], amn[c],
                                          SolvedLmax(c)))]
    /\ fields' = [fields EXCEPT ![c] = resp]
    /\ IF FieldIsNaN(resp)
       THEN Raise(c, MultisphereFieldNaN(theory))
       ELSE Raise(c, Returned(Result(resp, scatterer[c], target[c])))
    /\ UNCHANGED <<theory, scatterer, target, centers, m, solverLog, sol, amn>>

(***************************************************************************)
(* One calculation; the solver may spoil a coefficient at the edge of any  *)
(* order's range, the field kernel any component at the first or the last *)
(* sample point.                                                           *)
(***************************************************************************)
Next ==
    \/ \E c \in Calcs : Validate(c)
    \/ \E c \in Calcs : Transform(c)
    \/ \E c \in Calcs :
           /\ pc[c] = "SOLVE"
           /\ \E resp \in SolverResponses(NumSpheres(scatterer[c]), 1..MaxOrder, EdgeIdx) :
                  Solve(c, resp)
    \/ \E c \in Calcs : TruncateValidate(c)
    \/ \E c \in Calcs :
           /\ pc[c] = "RECONSTRUCT"
           /\ \E resp \in FieldResponses(1..3, {1, NumPoints}) : Reconstruct(c, resp)

Spec == Init /\ [][Next]_vars


(***************************************************************************)
(* Two calculations on the same theory instance, their stages interleaved  *)
(* in every order.                                                         *)
(***************************************************************************)
ParScatterers ==
    { [kind |-> "SphereCluster",
       scatterers |-> << Sphere(<<-10000, 0, 5000>>, 1, 3, 0),
                         Sphere(<<5000, 2500, 0>>, 500, 4, 1) >>],
      [kind |-> "SphereCluster",
       scatterers |-> << Sphere(<<5000, 2500, 0>>, 600, 3, 0) >>],
      [kind |-> "Sphere",
       scatterers |-> << Sphere(<<-10000, 0, 5000>>, 1, 3, 0) >>] }

InitPar == InitWith({1, 2}, ParScatterers, Targets)

NextPar ==
    \/ \E c \in Calcs : Validate(c)
    \/ \E c \in Calcs : Transform(c)
    \/ \E c \in Calcs :
           /\ pc[c] = "SOLVE"
           /\ \E resp \in SolverResponses(NumSpheres(scatterer[c]), {1, MaxOrder}, {1, RawLen}) :
                  Solve(c, resp)
    \/ \E c \in Calcs : TruncateValidate(c)
    \/ \E c \in Calcs :
           /\ pc[c] = "RECONSTRUCT"
           /\ \E resp \in FieldResponses({1}, {1}) : Reconstruct(c, resp)

SpecPar == InitPar /\ [][NextPar]_vars

(***************************************************************************)
(* Vocabulary of the properties, stated on the inputs and the kernels'     *)
(* raw outputs.                                                            *)
(***************************************************************************)
Stages == <<"VALIDATE", "TRANSFORM", "SOLVE", "TRUNCATE_VALIDATE", "RECONSTRUCT">>
HasRun(c, stage) == \E i \in 1..Len(trace[c]) : trace[c][i] = stage

Abs(x) == IF x < 0 THEN -x ELSE x
K(c) == target[c].optics.wavevec
Spheres(c) == scatterer[c].scatterers
IsCluster(c) == scatterer[c].kind = "SphereCluster"
SomeRadiusOver(c) == \E i \in 1..Len(Spheres(c)) : Spheres(c)[i].r * K(c) > 1000
AxisSum(c, a) == SumSeq([i \in 1..Len(Spheres(c)) |-> Spheres(c)[i].center[a]])
\* number of spheres times the centred, nondimensional coordinate of sphere i
CentredTimesN(c, i, a) ==
    (Len(Spheres(c)) * Spheres(c)[i].center[a] - AxisSum(c, a)) * K(c)
SomeCoordinateOver(c) ==
    \E i \in 1..Len(Spheres(c)) : \E a \in Axes :
        CentredTimesN(c, i, a) > 10000 * Len(Spheres(c))
SomeMagnitudeOver(c) ==
    \E i \in 1..Len(Spheres(c)) : \E a \in Axes :
        Abs(CentredTimesN(c, i, a)) > 10000 * Len(Spheres(c))

Raw(c) == sol[c][1].amn0
Order(c) == sol[c][1].lmax
Kept(c) == Order(c) * Order(c) + 2 * Order(c)
\* some raw coefficient of a kind in 'kinds' at a multipole index in 'range'
RawHas(c, kinds, range) ==
    \E s \in 1..Len(Raw(c)) : \E j \in range : \E k \in 1..Len(Raw(c)[s][j]) :
        Raw(c)[s][j][k].kind \in kinds
FieldHas(c, kinds) ==
    \E k \in 1..Len(fields[c]) : \E pt \in 1..Len(fields[c][k]) :
        fields[c][k][pt].kind \in kinds

(***************************************************************************)
(* C1.  A SphereCluster with some sphere of radius * wavevector > 1000:    *)
(* the solver is never called, and once the guards have run the outcome is *)
(* the radius-too-large UnrealizableScatterer, raised with the theory and  *)
(* a sphere whose radius * wavevector exceeds 1000.                        *)
(***************************************************************************)
C1_RadiusGuard ==
    \A c \in Calcs :
        (IsCluster(c) /\ SomeRadiusOver(c)) =>
            /\ solverLog[c] = <<>>
            /\ pc[c] # "VALIDATE" =>
                /\ pc[c] = "DONE"
                /\ outcome[c].kind = "UnrealizableScatterer"
                /\ outcome[c].msg = RadiusMsg
                /\ outcome[c].theory = <<theory>>
                /\ outcome[c].subject.what = "sphere"
                /\ outcome[c].subject.idx \in 1..Len(Spheres(c))
                /\ Spheres(c)[outcome[c].subject.idx].r * K(c) > 1000

\* a cluster whose second sphere is the only one over the limit has been rejected
C1_Witness ==
    \E c \in Calcs :
        /\ IsCluster(c) /\ Len(Spheres(c)) >= 2
        /\ Spheres(c)[1].r * K(c) <= 1000
        /\ Spheres(c)[2].r * K(c) > 1000
        /\ pc[c] = "DONE"
        /\ outcome[c].subject = OneSphere(2)

(***************************************************************************)
(* C2 (as claimed).  A SphereCluster that passes the radius guard and has  *)
(* a centred, nondimensional coordinate of magnitude above 1e4, of either  *)
(* sign, fails with 'particle separation too large' and the solver is not  *)
(* invoked.                                                                *)
(***************************************************************************)
C2_SeparationGuardAnySign ==
    \A c \in Calcs :
        (IsCluster(c) /\ ~SomeRadiusOver(c) /\ SomeMagnitudeOver(c)) =>
            /\ solverLog[c] = <<>>
            /\ pc[c] \notin {"VALIDATE", "TRANSFORM"} =>
                /\ pc[c] = "DONE"
                /\ outcome[c].kind = "UnrealizableScatterer"
                /\ outcome[c].msg = SeparationMsg

(***************************************************************************)
(* C3.  When the solver's convergence indicator is false the calculation   *)
(* fails with ConvergenceFailureMultisphere, whatever lmax and the raw     *)
(* coefficients are; the coefficients are not truncated or NaN-checked and *)
(* tmatrix_fields is not called.                                           *)
(***************************************************************************)
C3_ConvergenceFailure ==
    \A c \in Calcs :
        (sol[c] # <<>> /\ sol[c][1].converged = 0) =>
            /\ pc[c] = "DONE"
            /\ outcome[c] = ConvergenceFailureMultisphere
            /\ trace[c] = <<"VALIDATE", "TRANSFORM", "SOLVE">>
            /\ amn[c] = <<>>
            /\ reconLog[c] = <<>>
            /\ fields[c] = <<>>

\* an unconverged solve whose raw array holds a NaN inside the range of its lmax
C3_Witness ==
    \E c \in Calcs :
        /\ sol[c] # <<>> /\ sol[c][1].converged = 0
        /\ RawHas(c, {"nan"}, 1..Kept(c))
        /\ pc[c] = "DONE"

(***************************************************************************)
(* C4.  After a converged solve the truncated array keeps every sphere and *)
(* component and exactly lmax^2 + 2*lmax multipole entries, equal to the   *)
(* raw ones; the raw entries beyond do not matter: MultisphereExpansionNaN *)
(* is raised only for a NaN inside the range, and tmatrix_fields receives  *)
(* exactly the entries inside the range, with lmax.                        *)
(***************************************************************************)
C4_Truncation ==
    \A c \in Calcs :
        HasRun(c, "TRUNCATE_VALIDATE") =>
            /\ Len(amn[c]) = Len(Raw(c))
            /\ \A s \in 1..Len(Raw(c)) :
                /\ Len(amn[c][s]) = Kept(c)
                /\ \A j \in 1..Kept(c) : amn[c][s][j] = Raw(c)[s][j]
            /\ outcome[c].kind = "MultisphereExpansionNaN" =>
                   RawHas(c, {"nan"}, 1..Kept(c))
            /\ reconLog[c] # <<>> =>
                /\ reconLog[c][1].lmax = Order(c)
                /\ reconLog[c][1].amn =
                       [s \in 1..Len(Raw(c)) |-> [j \in 1..Kept(c) |-> Raw(c)[s][j]]]

\* a NaN just beyond the range, and the field was still reconstructed and returned
C4_Witness ==
    \E c \in Calcs :
        /\ outcome[c].kind = "returned"
        /\ Kept(c) < Len(Raw(c)[1])
        /\ RawHas(c, {"nan"}, {Kept(c) + 1})

C6_NonFiniteField ==
    \A c \in Calcs :
        (/\ HasRun(c, "RECONSTRUCT")
         /\ ~RawHas(c, {"nan", "inf"}, 1..Kept(c))
         /\ FieldHas(c, {"nan", "inf"})) =>
            /\ outcome[c].kind = "MultisphereFieldNaN"
            /\ outcome[c].theory = <<theory>>
            /\ outcome[c].subject = WholeScatterer
            /\ outcome[c].result = <<>>

(***************************************************************************)
(* C7.  A scatterer that is no SphereCluster: the solver is never called,  *)
(* and once the first stage has run the outcome is                         *)
(* TheoryNotCompatibleError raised with the theory and the scatterer,      *)
(* whatever its radii and positions; no later stage runs.                  *)
(***************************************************************************)
C7_TheoryNotCompatible ==
    \A c \in Calcs :
        ~IsCluster(c) =>
            /\ solverLog[c] = <<>>
            /\ pc[c] # "VALIDATE" =>
                /\ pc[c] = "DONE"
                /\ outcome[c].kind = "TheoryNotCompatibleError"
                /\ outcome[c].theory = <<theory>>
                /\ outcome[c].subject = WholeScatterer
                /\ trace[c] = <<"VALIDATE">>
                /\ centers[c] = <<>>

\* a lone sphere over the radius limit was rejected for its type
C7_Witness ==
    \E c \in Calcs :
        /\ ~IsCluster(c)
        /\ SomeRadiusOver(c)
        /\ pc[c] = "DONE"


(***************************************************************************)
(* C8.  The stages run in the order VALIDATE, TRANSFORM, SOLVE,            *)
(* TRUNCATE_VALIDATE, RECONSTRUCT, each at most once; the calculation is   *)
(* over exactly when it has its one outcome, a returned field or one of    *)
(* the six typed failures; a failure is raised by its own stage and no     *)
(* stage runs after it; each kernel is invoked at most once; a failure     *)
(* carries no field; and a field is returned only after all five stages,   *)
(* for a SphereCluster within the radius and separation limits as the      *)
(* guards test them, a converged solve, and both NaN checks passed.        *)
(***************************************************************************)
FailureStage(o) ==
    CASE o.kind = "TheoryNotCompatibleError" -> 1
      [] o.kind = "UnrealizableScatterer" /\ o.msg = RadiusMsg -> 1
      [] o.kind = "UnrealizableScatterer" /\ o.msg = SeparationMsg -> 2
      [] o.kind = "ConvergenceFailureMultisphere" -> 3
      [] o.kind = "MultisphereExpansionNaN" -> 4
      [] o.kind = "MultisphereFieldNaN" -> 5
      [] o.kind = "returned" -> 5
      [] OTHER -> 0

C8_Pipeline ==
    \A c \in Calcs :
        /\ Len(trace[c]) <= 5
        /\ trace[c] = SubSeq(Stages, 1, Len(trace[c]))
        /\ Len(solverLog[c]) = (IF HasRun(c, "SOLVE") THEN 1 ELSE 0)
        /\ Len(reconLog[c]) = (IF HasRun(c, "RECONSTRUCT") THEN 1 ELSE 0)
        /\ (pc[c] = "DONE") <=> (outcome[c].kind # "none")
        /\ pc[c] # "DONE" => (Len(trace[c]) < 5 /\ pc[c] = Stages[Len(trace[c]) + 1])
        /\ pc[c] = "DONE" =>
            /\ FailureStage(outcome[c]) \in 1..5
            /\ Len(trace[c]) = FailureStage(outcome[c])
            /\ (outcome[c].result # <<>>) <=> (outcome[c].kind = "returned")
        /\ outcome[c].kind = "returned" =>
            /\ IsCluster(c)
            /\ ~SomeRadiusOver(c)
            /\ ~SomeCoordinateOver(c)
            /\ sol[c][1].converged # 0
            /\ ~RawHas(c, {"nan"}, 1..Kept(c))
            /\ fields[c][1][1].kind # "nan"
            /\ Len(outcome[c].result[1].values) = NumPoints

\* one calculation ended by a failure of the fourth stage, another kind of
\* end than a returned field
C8_Witness ==
    \E c \in Calcs :
        /\ pc[c] = "DONE"
        /\ outcome[c].kind = "MultisphereExpansionNaN"
        /\ trace[c] = SubSeq(Stages, 1, 4)
        /\ Len(solverLog[c]) = 1

(***************************************************************************)
(* C9.  Two calculations interleaved on one theory instance: each ends     *)
(* with the outcome it has when run alone on its own inputs and its own    *)
(* kernel responses; every step changes the state of one calculation only, *)
(* and never the theory's configuration, the scatterers or the targets.    *)
(***************************************************************************)
Locals(c) ==
    <<pc[c], outcome[c], centers[c], m[c], solverLog[c], sol[c], amn[c],
      reconLog[c], fields[c], trace[c]>>

\* _calc_field run from start to end on its own
RunAlone(th, sc, tg, solved, fld) ==
    IF sc.kind # "SphereCluster" THEN TheoryNotCompatibleError(th)
    ELSE IF \E i \in 1..Len(sc.scatterers) : sc.scatterers[i].r * tg.optics.wavevec > 1000
    THEN UnrealizableScatterer(th,
             OneSphere(CHOOSE i \in 1..Len(sc.scatterers) :
                 /\ sc.scatterers[i].r * tg.optics.wavevec > 1000
                 /\ \A j \in 1..(i - 1) : sc.scatterers[j].r * tg.optics.wavevec <= 1000),
             RadiusMsg)
    ELSE IF SeparationTooLarge(CentroidCoords(sc, tg.optics.wavevec))
    THEN UnrealizableScatterer(th, WholeScatterer, SeparationMsg)
    ELSE IF solved = <<>> THEN NoOutcome     \* the solver never answered
    ELSE IF solved[1].converged = 0 THEN ConvergenceFailureMultisphere
    ELSE IF \E s \in 1..Len(solved[1].amn0) :
            \E j \in 1..(solved[1].lmax * solved[1].lmax + 2 * solved[1].lmax) :
            \E k \in 1..NumAmnComponents : solved[1].amn0[s][j][k].kind = "nan"
    THEN MultisphereExpansionNaN
    ELSE IF fld = <<>> THEN NoOutcome        \* the field kernel never answered
    ELSE IF fld[1][1].kind = "nan" THEN MultisphereFieldNaN(th)
    ELSE Returned(Result(fld, sc, tg))

C9_Independent ==
    /\ [](\A c \in Calcs :
            pc[c] = "DONE" =>
                outcome[c] = RunAlone(theory, scatterer[c], target[c], sol[c], fields[c]))
    /\ [][/\ theory' = theory
          /\ scatterer' = scatterer
          /\ target' = target
          /\ \E c \in Calcs : \A d \in Calcs \ {c} : Locals(d)' = Locals(d)]_vars

\* both calculations got past the solver with different orders and ended differently
C9_Witness ==
    /\ Cardinality(Calcs) = 2
    /\ \A c \in Calcs : pc[c] = "DONE" /\ HasRun(c, "TRUNCATE_VALIDATE")
    /\ \E c, d \in Calcs :
        /\ Order(c) < Order(d)
        /\ RawHas(c, {"nan"}, {Len(Raw(c)[1])})
        /\ outcome[c].kind = "returned"
        /\ outcome[d].kind = "MultisphereExpansionNaN"

(***************************************************************************)
(* C10.  The solver is called with, per sphere i and wavevector k,         *)
(* x = (cx - mean cx) k, y = (cy - mean cy) k, z = -(cz - mean cz) k,      *)
(* Re and Im of n / index, the radii r k, then niter, eps, qeps1, qeps2,   *)
(* meth and the tuple (0,0).  Only the solver's z is flipped: the          *)
(* coordinates the separation guard tests and the origin handed to the     *)
(* sample points are not.                                                  *)
(***************************************************************************)
\* the rational q equals num / den
RatIs(q, num, den) == q.den > 0 /\ q.num * den = num * q.den

C10_SolverArguments ==
    \A c \in Calcs :
        solverLog[c] # <<>> =>
            LET a == solverLog[c][1]
                n == Len(Spheres(c))
            IN  /\ Len(a) = 13
                /\ \A j \in {2, 3, 4, 5, 6, 7} : Len(a[j]) = n
                /\ \A i \in 1..n :
                    /\ RatIs(a[2][i], CentredTimesN(c, i, 1), n)
                    /\ RatIs(a[3][i], CentredTimesN(c, i, 2), n)
                    /\ RatIs(a[4][i], -CentredTimesN(c, i, 3), n)
                    /\ RatIs(a[5][i], Spheres(c)[i].n.re, target[c].optics.index)
                    /\ RatIs(a[6][i], Spheres(c)[i].n.im, target[c].optics.index)
                    /\ a[7][i] = Spheres(c)[i].r * K(c)
                    /\ RatIs(centers[c][i][3], CentredTimesN(c, i, 3), n)
                /\ a[8] = theory.niter
                /\ a[9] = theory.eps
                /\ a[10] = theory.qeps1
                /\ a[11] = theory.qeps2
                /\ a[12] = theory.meth
                /\ a[13] = <<0, 0>>
                /\ reconLog[c] # <<>> =>
                       \A x \in Axes : RatIs(reconLog[c][1].origin[x], AxisSum(c, x), n)

\* the solver was called for two or more spheres at different heights, one absorbing
C10_Witness ==
    \E c \in Calcs :
        /\ solverLog[c] # <<>>
        /\ reconLog[c] # <<>>
        /\ \E i \in 1..Len(Spheres(c)) :
            /\ CentredTimesN(c, i, 3) > 0
            /\ solverLog[c][1][4][i].num < 0
        /\ \E i \in 1..Len(Spheres(c)) : solverLog[c][1][6][i].num # 0

====
